---- MODULE Spec2Model ----
(***************************************************************************)
(* Model of src/server.ts: the VoiceAgent MCP server.  The file holds two  *)
(* variants of the server, version 12.0.0 (lines 1-270) and version 6.0.0  *)
(* (lines 271-523).  The variable `variant` says which one is running.     *)
(*                                                                         *)
(* Strings the code takes apart (the date/time arguments, the generated    *)
(* text) are sequences of one-character strings.  A Date is a record       *)
(* [valid, time]: time is in seconds since 1970-01-01T00:00:00Z (no input  *)
(* of the model carries fractions of a second); an Invalid Date has        *)
(* valid = FALSE.                                                          *)
(***************************************************************************)
EXTENDS Integers, Sequences, FiniteSets, TLC

VARIABLES
    variant,          \* "v12" or "v6": which server of src/server.ts runs
    tzOffset,         \* the server's local clock, seconds east of UTC
    emailConfigured,  \* EMAIL_WEBHOOK_URL (v12) / EMAIL_USER (v6) is non-empty
    calendarEvents,   \* the events held by the external calendar
    tool,             \* the tool of the last invocation, "none" before any
    arg,              \* its date/dateTime argument (a character sequence)
    instant,          \* the Date the handler computed from arg
    busyEvents,       \* the events handed to calculateFreeSlots
    freeSlots,        \* the labels calculateFreeSlots returned
    aiContent,        \* generate_collateral: the generated text
    documentKnowledge, \* the corpus loadDocuments built, by name (see Documents)
    scores,           \* search_knowledge_base: the score of each document
    results,          \* search_knowledge_base: the ranked documents
    recipientEmail,   \* generate_collateral (v12): a recipientEmail was supplied
    calls,            \* the external calls the invocation made, in order
    reply             \* the text reply, NoReply while the handler is pending

vars == <<variant, tzOffset, emailConfigured, calendarEvents, tool, arg,
          instant, busyEvents, freeSlots, aiContent, documentKnowledge, scores, results,
          recipientEmail, calls, reply>>

----------------------------------------------------------------------------
(* Characters and numbers *)

Digits == <<"0", "1", "2", "3", "4", "5", "6", "7", "8", "9">>

IsDigit(c) == \E i \in 1..10 : Digits[i] = c

DigitVal(c) == CHOOSE i \in 0..9 : Digits[i + 1] = c

AllDigits(s, from, to) == \A i \in from..to : IsDigit(s[i])

\* the number written by the digits s[from..to]
RECURSIVE NumAt(_, _, _)
NumAt(s, from, to) ==
    IF to < from THEN 0
    ELSE 10 * NumAt(s, from, to - 1) + DigitVal(s[to])

TwoDigits(n) == <<Digits[(n \div 10) + 1], Digits[(n % 10) + 1]>>

FourDigits(n) == TwoDigits(n \div 100) \o TwoDigits(n % 100)

Min(a, b) == IF a < b THEN a ELSE b

----------------------------------------------------------------------------
(* JavaScript Date *)

InvalidDate == [valid |-> FALSE, time |-> 0]

MkDate(t) == [valid |-> TRUE, time |-> t]

\* days from 1970-01-01 to the civil date y-m-d (proleptic Gregorian)
DaysFromCivil(y, m, d) ==
    LET yy  == IF m <= 2 THEN y - 1 ELSE y
        era == yy \div 400
        yoe == yy - era * 400
        mp  == IF m > 2 THEN m - 3 ELSE m + 9
        doy == ((153 * mp + 2) \div 5) + d - 1
        doe == yoe * 365 + (yoe \div 4) - (yoe \div 100) + doy
    IN  era * 146097 + doe - 719468

\* s[1..10] is YYYY-MM-DD with a month 01..12 and a day 01..31
IsDatePart(s) ==
    /\ Len(s) >= 10
    /\ AllDigits(s, 1, 4) /\ s[5] = "-" /\ AllDigits(s, 6, 7)
    /\ s[8] = "-" /\ AllDigits(s, 9, 10)
    /\ NumAt(s, 6, 7) \in 1..12
    /\ NumAt(s, 9, 10) \in 1..31

DatePartDays(s) == DaysFromCivil(NumAt(s, 1, 4), NumAt(s, 6, 7), NumAt(s, 9, 10))

\* s[from..] is HH:MM or HH:MM:SS; the result is its length, 0 when it is neither
TimePartLen(s, from) ==
    IF /\ Len(s) >= from + 4
       /\ AllDigits(s, from, from + 1) /\ s[from + 2] = ":"
       /\ AllDigits(s, from + 3, from + 4)
       /\ NumAt(s, from, from + 1) \in 0..23
       /\ NumAt(s, from + 3, from + 4) \in 0..59
    THEN IF /\ Len(s) >= from + 7
            /\ s[from + 5] = ":" /\ AllDigits(s, from + 6, from + 7)
            /\ NumAt(s, from + 6, from + 7) \in 0..59
         THEN 8 ELSE 5
    ELSE 0

TimePartSeconds(s, from, len) ==
    NumAt(s, from, from + 1) * 3600 + NumAt(s, from + 3, from + 4) * 60
    + (IF len = 8 THEN NumAt(s, from + 6, from + 7) ELSE 0)

\* the zone designator s[from..]: "" (local time), Z, +HH:MM, -HH:MM, +HHMM, -HHMM.
\* [ok, east]: east is the offset in seconds east of UTC.
ZonePart(s, from, local) ==
    LET n == Len(s) - from + 1
    IN  IF n = 0 THEN [ok |-> TRUE, east |-> local]
        ELSE IF n = 1 /\ s[from] = "Z" THEN [ok |-> TRUE, east |-> 0]
        ELSE IF /\ n = 6 /\ s[from] \in {"+", "-"}
                /\ AllDigits(s, from + 1, from + 2) /\ s[from + 3] = ":"
                /\ AllDigits(s, from + 4, from + 5)
             THEN [ok |-> TRUE,
                   east |-> (IF s[from] = "-" THEN -1 ELSE 1)
                            * (NumAt(s, from + 1, from + 2) * 3600
                               + NumAt(s, from + 4, from + 5) * 60)]
        ELSE IF /\ n = 5 /\ s[from] \in {"+", "-"}
                /\ AllDigits(s, from + 1, from + 4)
             THEN [ok |-> TRUE,
                   east |-> (IF s[from] = "-" THEN -1 ELSE 1)
                            * (NumAt(s, from + 1, from + 2) * 3600
                               + NumAt(s, from + 3, from + 4) * 60)]
        ELSE [ok |-> FALSE, east |-> 0]

\* new Date(str) on the server whose local clock is `local` seconds east of
\* UTC.  A date alone is midnight UTC; a date-time without a zone designator
\* is local time; anything outside the date-time format is an Invalid Date.
NewDate(s, local) ==
    IF ~IsDatePart(s) THEN InvalidDate
    ELSE IF Len(s) = 10 THEN MkDate(DatePartDays(s) * 86400)
    ELSE IF s[11] # "T" THEN InvalidDate
    ELSE LET tl == TimePartLen(s, 12)
             z  == ZonePart(s, 12 + tl, local)
         IN  IF tl = 0 \/ ~z.ok THEN InvalidDate
             ELSE MkDate(DatePartDays(s) * 86400
                         + TimePartSeconds(s, 12, tl) - z.east)

\* Date.prototype.setHours(h, m, s): the local calendar day is kept, the
\* local time of day is replaced.
SetHours(d, h, m, s, local) ==
    IF ~d.valid THEN InvalidDate
    ELSE MkDate((((d.time + local) \div 86400) * 86400)
                + h * 3600 + m * 60 + s - local)

\* a toISOString that formats an Invalid Date instead of throwing
ToISOStringNeverThrows(d) == FALSE

\* Date.prototype.toISOString() throws a RangeError on an Invalid Date
ToISOStringThrows(d) == ~d.valid

\* d.toISOString().slice(0, 10): the UTC calendar day, as its day number
IsoDay(d) == d.time \div 86400

----------------------------------------------------------------------------
(* Home time zone *)

\* TIME_ZONE = "Asia/Kolkata": UTC+05:30 all year
TIME_ZONE == 19800

\* the characters "+05:30" and "T00:00:00" that parseIST appends
HomeOffsetText == <<"+", "0", "5", ":", "3", "0">>

MidnightText == <<"T", "0", "0", ":", "0", "0", ":", "0", "0">>

\* str.replace(/Z$/, '')
StripZ(s) ==
    IF Len(s) >= 1 /\ s[Len(s)] = "Z" THEN SubSeq(s, 1, Len(s) - 1) ELSE s

\* str.replace(/([+-]\d{2}:?\d{2})$/, '')
StripOffset(s) ==
    LET n == Len(s)
    IN  IF /\ n >= 6 /\ s[n - 5] \in {"+", "-"}
           /\ AllDigits(s, n - 4, n - 3) /\ s[n - 2] = ":"
           /\ AllDigits(s, n - 1, n)
        THEN SubSeq(s, 1, n - 6)
        ELSE IF /\ n >= 5 /\ s[n - 4] \in {"+", "-"}
                /\ AllDigits(s, n - 3, n)
             THEN SubSeq(s, 1, n - 5)
        ELSE s

parseIST(dateStr, local) ==
    LET clean  == StripOffset(StripZ(dateStr))
        padded == IF Len(clean) <= 10 THEN clean \o MidnightText ELSE clean
    IN  NewDate(padded \o HomeOffsetText, local)

\* candidateTime.toLocaleString("en-US", {timeZone, hour12: false, ...}) and
\* parseInt of its hour.  (Midnight prints as 0 or 24; neither is in 9..16.)
HomeHour(t) == ((t + TIME_ZONE) \div 3600) % 24

\* candidateTime.toLocaleTimeString("en-US", {timeZone, hour: '2-digit',
\* minute: '2-digit'}): the 12-hour label "hh:mm AM|PM" as <<hh, mm, half>>
SlotLabel(t) ==
    LET h == HomeHour(t)
        m == ((t + TIME_ZONE) \div 60) % 60
    IN  <<IF h % 12 = 0 THEN 12 ELSE h % 12, m, IF h < 12 THEN "AM" ELSE "PM">>

----------------------------------------------------------------------------
(* Calendar events, as the calendar API returns them.  A timed event has   *)
(* start.dateTime and end.dateTime; an all-day event has start.date and    *)
(* end.date only.  start and end hold new Date(dateTime || date): for an   *)
(* all-day event that is midnight UTC of the date.                         *)

TimedEvent(s, e) == [allDay |-> FALSE, start |-> s, end |-> e]

AllDayEvent(day) == [allDay |-> TRUE, start |-> day * 86400, end |-> (day + 1) * 86400]

\* the predicate of busyEvents.some(...) for one event
EventCovers(event, candidateTime) ==
    IF event.allDay
    THEN IsoDay(MkDate(event.start)) = IsoDay(MkDate(candidateTime))
    ELSE candidateTime >= event.start /\ candidateTime < event.end

isBusy(busy, candidateTime) == \E event \in busy : EventCovers(event, candidateTime)

\* one slot is 30 * 60000 ms
SlotSeconds == 1800

\* the while loop of calculateFreeSlots
RECURSIVE SlotLoop(_, _, _, _)
SlotLoop(candidateTime, endOfDay, busy, acc) ==
    IF ~(candidateTime < endOfDay) THEN acc
    ELSE LET hour == HomeHour(candidateTime)
             next == IF hour >= 9 /\ hour < 17 /\ ~isBusy(busy, candidateTime)
                     THEN Append(acc, SlotLabel(candidateTime))
                     ELSE acc
         IN  SlotLoop(candidateTime + SlotSeconds, endOfDay, busy, next)

calculateFreeSlotsV12(dateStr, busy, local) ==
    LET startOfDay    == parseIST(dateStr, local)
        endOfDay      == SetHours(startOfDay, 23, 59, 59, local)
        candidateTime == SetHours(startOfDay, 9, 0, 0, local)
    IN  IF ~startOfDay.valid THEN <<>>
        ELSE SlotLoop(candidateTime.time, endOfDay.time, busy, <<>>)

calculateFreeSlotsV6(dateStr, busy, local) ==
    LET startOfDay == NewDate(dateStr, local)
        endOfDay   == SetHours(NewDate(dateStr, local), 23, 59, 59, local)
    IN  IF ~startOfDay.valid THEN <<>>
        ELSE SlotLoop(startOfDay.time, endOfDay.time, busy, <<>>)

calculateFreeSlots(v, dateStr, busy, local) ==
    IF v = "v12" THEN calculateFreeSlotsV12(dateStr, busy, local)
    ELSE calculateFreeSlotsV6(dateStr, busy, local)

----------------------------------------------------------------------------
(* External services.  Each call either succeeds or fails; a call made by  *)
(* a handler is logged as [op, ok].                                        *)

Call(op, ok) == [op |-> op, ok |-> ok]

\* calendar.events.list with timeMin, timeMax and timeZone = TIME_ZONE: the
\* events that end after timeMin and start before timeMax.  An all-day event
\* spans its date in the calendar's time zone.
ListEvents(cal, timeMin, timeMax) ==
    {e \in cal :
        IF e.allDay
        THEN e.end - TIME_ZONE > timeMin /\ e.start - TIME_ZONE < timeMax
        ELSE e.end > timeMin /\ e.start < timeMax}

NoReply == [kind |-> "NoReply", body |-> <<>>]

Reply(kind, body) == [kind |-> kind, body |-> body]

\* what one run of a handler produced
Outcome(inst, busy, slots, content, log, rep, cal) ==
    [instant |-> inst, busyEvents |-> busy, freeSlots |-> slots,
     aiContent |-> content, calls |-> log, reply |-> rep, calendarEvents |-> cal]

----------------------------------------------------------------------------
(* check_calendar_availability *)

CheckAvailabilityV12(date, cal, local, listOk) ==
    LET start == parseIST(date, local)
        end   == SetHours(start, 23, 59, 59, local)
        error == Reply("Error checking calendar.", <<>>)
    IN  IF ToISOStringThrows(start) \/ ToISOStringThrows(end)
        THEN Outcome(start, {}, <<>>, <<>>, <<>>, error, cal)
        ELSE IF ~listOk
        THEN Outcome(start, {}, <<>>, <<>>,
                     <<Call("calendar.events.list", FALSE)>>, error, cal)
        ELSE LET events == ListEvents(cal, start.time, end.time)
                 availableSlots == calculateFreeSlotsV12(date, events, local)
             IN  Outcome(start, events, availableSlots, <<>>,
                         <<Call("calendar.events.list", TRUE)>>,
                         Reply("STATUS FOR", availableSlots), cal)

DaySeconds == 86400

CheckAvailabilityV6(date, cal, local, listOk) ==
    LET start == NewDate(date, local)
        error == Reply("Error checking calendar.", <<>>)
    IN  IF ToISOStringThrows(start)
        THEN Outcome(start, {}, <<>>, <<>>, <<>>, error, cal)
        ELSE IF ~listOk
        THEN Outcome(start, {}, <<>>, <<>>,
                     <<Call("calendar.events.list", FALSE)>>, error, cal)
        ELSE LET events == ListEvents(cal, start.time, start.time + DaySeconds)
                 availableSlots == calculateFreeSlotsV6(date, events, local)
             IN  Outcome(start, events, availableSlots, <<>>,
                         <<Call("calendar.events.list", TRUE)>>,
                         Reply("STATUS FOR", availableSlots), cal)

----------------------------------------------------------------------------
(* book_appointment *)

\* sendEmailViaRelay: nothing without EMAIL_WEBHOOK_URL; a failed fetch is
\* caught and logged, never rethrown.  The result is the calls it made.
sendEmailViaRelay(configured, mailOk) ==
    IF ~configured THEN <<>> ELSE <<Call("fetch", mailOk)>>

BookAppointmentV12(dateTime, cal, local, configured, insertOk, mailOk) ==
    LET start == parseIST(dateTime, local)
        end   == start.time + SlotSeconds
        error == Reply("Error booking slot.", <<>>)
    IN  IF ToISOStringThrows(start)
        THEN Outcome(start, {}, <<>>, <<>>, <<>>, error, cal)
        ELSE IF ~insertOk
        THEN Outcome(start, {}, <<>>, <<>>,
                     <<Call("calendar.events.insert", FALSE)>>, error, cal)
        ELSE Outcome(start, {}, <<>>, <<>>,
                     <<Call("calendar.events.insert", TRUE)>>
                        \o sendEmailViaRelay(configured, mailOk),
                     Reply("Success. Booked for", <<SlotLabel(start.time)>>),
                     cal \cup {TimedEvent(start.time, end)})

\* v6 with sendMail under the outer try only: a failed email is reported as
\* a failed booking
BookAppointmentV6EmailUncaught(dateTime, cal, local, insertOk, mailOk) ==
    LET start == NewDate(dateTime, local)
        end   == start.time + SlotSeconds
        error == Reply("Error booking slot.", <<>>)
    IN  IF ToISOStringThrows(start)
        THEN Outcome(start, {}, <<>>, <<>>, <<>>, error, cal)
        ELSE IF ~insertOk
        THEN Outcome(start, {}, <<>>, <<>>,
                     <<Call("calendar.events.insert", FALSE)>>, error, cal)
        ELSE Outcome(start, {}, <<>>, <<>>,
                     <<Call("calendar.events.insert", TRUE),
                       Call("transporter.sendMail", mailOk)>>,
                     IF mailOk THEN Reply("Success. Booked and emailed.", <<>>)
                     ELSE error,
                     cal \cup {TimedEvent(start.time, end)})

BookAppointmentV6(dateTime, cal, local, insertOk, mailOk) ==
    LET start == NewDate(dateTime, local)
        end   == start.time + SlotSeconds
        error == Reply("Error booking slot.", <<>>)
    IN  IF ToISOStringThrows(start)
        THEN Outcome(start, {}, <<>>, <<>>, <<>>, error, cal)
        ELSE IF ~insertOk
        THEN Outcome(start, {}, <<>>, <<>>,
                     <<Call("calendar.events.insert", FALSE)>>, error, cal)
        ELSE Outcome(start, {}, <<>>, <<>>,
                     <<Call("calendar.events.insert", TRUE),
                       Call("transporter.sendMail", mailOk)>>,
                     IF mailOk THEN Reply("Success. Booked and emailed.", <<>>)
                     ELSE Reply("Booked on calendar (Email failed).", <<>>),
                     cal \cup {TimedEvent(start.time, end)})

----------------------------------------------------------------------------
(* generate_collateral *)

\* aiContent.substring(0, 1000)
PreviewLength == 1000

Substring(text, n) == SubSeq(text, 1, Min(n, Len(text)))

\* completion.choices[0]?.message?.content || "Error generating text."
ErrorGeneratingText ==
    <<"E", "r", "r", "o", "r", " ", "g", "e", "n", "e", "r", "a", "t", "i",
      "n", "g", " ", "t", "e", "x", "t", ".">>

ContentOrDefault(content) == IF content = <<>> THEN ErrorGeneratingText ELSE content

\* DeliverV6 without the return after a successful sendMail
DeliverV6EmailFallsThrough(content, configured, driveOk, mailOk) ==
    IF driveOk
    THEN [calls |-> <<Call("drive.files.create", TRUE)>>,
          reply |-> Reply("Created Google Doc:", <<>>)]
    ELSE [calls |-> <<Call("drive.files.create", FALSE)>>
                    \o (IF configured
                        THEN <<Call("transporter.sendMail", mailOk)>>
                        ELSE <<>>),
          reply |-> Reply("I couldn't save to Drive or Email. Here is the draft:",
                          Substring(content, PreviewLength))]

\* v6, lines 486-516: Drive, then email, then the text itself.
\* driveOk and mailOk are the outcomes of drive.files.create and sendMail.
DeliverV6(content, configured, driveOk, mailOk) ==
    IF driveOk
    THEN [calls |-> <<Call("drive.files.create", TRUE)>>,
          reply |-> Reply("Created Google Doc:", <<>>)]
    ELSE IF configured /\ mailOk
    THEN [calls |-> <<Call("drive.files.create", FALSE),
                      Call("transporter.sendMail", TRUE)>>,
          reply |-> Reply("I couldn't save to Drive (storage full), so I emailed the draft to you instead.", <<>>)]
    ELSE [calls |-> <<Call("drive.files.create", FALSE)>>
                    \o (IF configured
                        THEN <<Call("transporter.sendMail", FALSE)>>
                        ELSE <<>>),
          reply |-> Reply("I couldn't save to Drive or Email. Here is the draft:",
                          Substring(content, PreviewLength))]

\* DeliverV12 without the test of recipientEmail
DeliverV12EmailsAnyway(content, configured, file, hasRecipient, mailOk) ==
    IF file = "throw"
    THEN [calls |-> <<Call("pdf.write", FALSE)>>,
          reply |-> Reply("Error saving PDF file.", <<>>)]
    ELSE IF file = "error"
    THEN [calls |-> <<Call("pdf.write", FALSE)>>, reply |-> NoReply]
    ELSE [calls |-> <<Call("pdf.write", TRUE)>>
                    \o sendEmailViaRelay(configured, mailOk),
          reply |-> Reply("I have created the PDF. You can view it here:",
                          <<"I have also emailed it">>)]

\* v12, lines 225-262: write the PDF under public/, then email its link.
\* file is what writing the PDF did: "finish" (the stream finished), "throw"
\* (a call threw inside the try block) or "error" (the stream failed, so
\* 'finish' is never emitted and the awaited promise never settles).
DeliverV12(content, configured, file, hasRecipient, mailOk) ==
    IF file = "throw"
    THEN [calls |-> <<Call("pdf.write", FALSE)>>,
          reply |-> Reply("Error saving PDF file.", <<>>)]
    ELSE IF file = "error"
    THEN [calls |-> <<Call("pdf.write", FALSE)>>, reply |-> NoReply]
    ELSE IF hasRecipient
    THEN [calls |-> <<Call("pdf.write", TRUE)>>
                    \o sendEmailViaRelay(configured, mailOk),
          reply |-> Reply("I have created the PDF. You can view it here:",
                          <<"I have also emailed it">>)]
    ELSE [calls |-> <<Call("pdf.write", TRUE)>>,
          reply |-> Reply("I have created the PDF. You can view it here:",
                          <<"(I didn't send an email because no address was provided)">>)]

\* ai is the outcome of openai.chat.completions.create: [ok, content]
GenerateCollateral(v, cal, configured, ai, file, hasRecipient, mailOk) ==
    IF ~ai.ok
    THEN Outcome(InvalidDate, {}, <<>>, <<>>, <<Call("openai.create", FALSE)>>,
                 Reply("AI Generation failed.", <<>>), cal)
    ELSE LET content == ContentOrDefault(ai.content)
             d == IF v = "v12"
                  THEN DeliverV12(content, configured, file, hasRecipient, mailOk)
                  ELSE DeliverV6(content, configured, file = "finish", mailOk)
         IN  Outcome(InvalidDate, {}, <<>>, content,
                     <<Call("openai.create", TRUE)>> \o d.calls, d.reply, cal)

----------------------------------------------------------------------------
(* send_email (v6 only) *)

SendEmailV6(cal, mailOk) ==
    Outcome(InvalidDate, {}, <<>>, <<>>, <<Call("transporter.sendMail", mailOk)>>,
            IF mailOk THEN Reply("Email sent.", <<>>)
            ELSE Reply("Failed to send email.", <<>>), cal)

----------------------------------------------------------------------------
(* search_knowledge_base *)

UpperCase ==
    [A |-> "a", D |-> "d", O |-> "o", P |-> "p", R |-> "r", S |-> "s"]

\* String.prototype.toLowerCase, on the letters the inputs use
toLowerCase(text) ==
    [i \in DOMAIN text |->
        IF text[i] \in DOMAIN UpperCase THEN UpperCase[text[i]] ELSE text[i]]

\* text.split(" "): the pieces between single spaces, empty pieces included
RECURSIVE Split(_, _, _)
Split(text, from, piece) ==
    IF from > Len(text) THEN <<piece>>
    ELSE IF text[from] = " " THEN <<piece>> \o Split(text, from + 1, <<>>)
    ELSE Split(text, from + 1, Append(piece, text[from]))

\* text.includes(word)
Includes(text, word) ==
    \E i \in 0..(Len(text) - Len(word)) : SubSeq(text, i + 1, i + Len(word)) = word

\* query.toLowerCase().split(" ").filter(w => w.length > 3)
Keywords(query) == SelectSeq(Split(toLowerCase(query), 1, <<>>), LAMBDA w : Len(w) > 3)

\* keywords.forEach(word => { if (content.includes(word)) score++; })
Score(doc, keywords) ==
    Cardinality({i \in DOMAIN keywords : Includes(toLowerCase(doc.content), keywords[i])})

\* the ranking with the sort left out
SortByScoreUnsorted(scored) == scored

\* Array.prototype.sort((a, b) => b.score - a.score): stable, highest first
RECURSIVE SortByScore(_)
SortByScore(scored) ==
    IF scored = <<>> THEN <<>>
    ELSE LET top == CHOOSE i \in DOMAIN scored :
                       /\ \A j \in DOMAIN scored : scored[j].score <= scored[i].score
                       /\ \A j \in 1..(i - 1) : scored[j].score < scored[i].score
             rest == [j \in 1..(Len(scored) - 1) |->
                         IF j < top THEN scored[j] ELSE scored[j + 1]]
         IN  <<scored[top]>> \o SortByScore(rest)

\* results are at most 3 documents
ResultLimit == 3

\* documentKnowledge.map(doc => { ...; return { ...doc, score }; })
Scored(query, corpus) ==
    LET keywords == Keywords(query)
    IN  [i \in DOMAIN corpus |->
            [filename |-> corpus[i].filename,
             content  |-> corpus[i].content,
             score    |-> Score(corpus[i], keywords)]]

\* .filter(doc => doc.score > 0).sort(...).slice(0, 3)
Search(query, corpus) ==
    LET matching == SelectSeq(Scored(query, corpus), LAMBDA doc : doc.score > 0)
    IN  SubSeq(SortByScore(matching), 1, Min(ResultLimit, Len(matching)))

SearchKnowledgeBase(query, corpus) ==
    LET found  == Search(query, corpus)
        scored == Scored(query, corpus)
    IN  [scores  |-> [i \in DOMAIN scored |-> scored[i].score],
         results |-> found,
         reply   |-> IF found = <<>> THEN Reply("No info found.", <<>>)
                     ELSE Reply("Found details:",
                                [i \in DOMAIN found |-> found[i].filename])]

----------------------------------------------------------------------------
(* Inputs *)

\* how many events the calendar may hold, how many are handed to
\* calculateFreeSlots at once
MaxEvents == 2

MaxBusy == 2

Dates == {<<2024, 3, 1>>, <<2024, 3, 2>>}

Times == {<<10, 15>>}

Suffixes ==
    { <<>>,
      <<"Z">>,
      <<"-", "0", "8", ":", "0", "0">>,
      <<"+", "0", "5", "3", "0">> }

\* server clocks: UTC-08:00, UTC, UTC+05:30
TzOffsets == {-28800, 0, 19800}

DateText(d) == FourDigits(d[1]) \o <<"-">> \o TwoDigits(d[2]) \o <<"-">> \o TwoDigits(d[3])

TimeText(t) == <<"T">> \o TwoDigits(t[1]) \o <<":">> \o TwoDigits(t[2]) \o <<":", "0", "0">>

DateTimeText(d, t, sfx) == DateText(d) \o TimeText(t) \o sfx

\* arguments that are no date: "", "soon" and "2024-13-01"
Malformed == { <<>>, <<"s", "o", "o", "n">>, DateText(<<2024, 13, 1>>) }

BareDates == {DateText(d) : d \in Dates}

DateTimes == {DateTimeText(d, t, sfx) : d \in Dates, t \in Times, sfx \in Suffixes}

\* the date arguments of calculateFreeSlots on its own
ArgInputs == BareDates \cup DateTimes \cup Malformed

\* the date arguments of the tools: those of the first date
ToolInputs ==
    Malformed \cup {s \in BareDates \cup DateTimes : SubSeq(s, 1, 10) = DateText(<<2024, 3, 1>>)}

\* the instant of the wall-clock time h:m of date d in the home zone
HomeInstant(d, h, m) ==
    DaysFromCivil(d[1], d[2], d[3]) * 86400 + h * 3600 + m * 60 - TIME_ZONE

UtcDay(d) == DaysFromCivil(d[1], d[2], d[3])

\* events of date d: timed ones inside business hours, and an all-day one
EventsOn(d) ==
    { TimedEvent(HomeInstant(d, 9, 0), HomeInstant(d, 10, 0)),
      TimedEvent(HomeInstant(d, 10, 15), HomeInstant(d, 10, 45)),
      TimedEvent(HomeInstant(d, 12, 0), HomeInstant(d, 12, 30)),
      TimedEvent(HomeInstant(d, 16, 0), HomeInstant(d, 17, 0)),
      AllDayEvent(UtcDay(d)) }

EventUniverse == UNION {EventsOn(d) : d \in Dates}

InitialCalendars ==
    { {},
      {TimedEvent(HomeInstant(<<2024, 3, 1>>, 10, 0), HomeInstant(<<2024, 3, 1>>, 10, 30))},
      {AllDayEvent(UtcDay(<<2024, 3, 1>>))} }

ShortText == <<"d", "r", "a", "f", "t">>

LongText == [i \in 1..(PreviewLength + 2) |-> Digits[(i % 10) + 1]]

AiOutcomes ==
    { [ok |-> FALSE, content |-> <<>>] }
    \cup { [ok |-> TRUE, content |-> c] : c \in {<<>>, ShortText, LongText} }

\* the corpora loadDocuments may have built, each a sequence of
\* [filename, content], and the queries asked
Corpus ==
    << [filename |-> "a.txt",
        content |-> <<"r", "e", "f", "u", "n", "d", " ", "p", "o", "l",
                      "i", "c", "y", " ", "f", "o", "r", " ", "o", "r",
                      "d", "e", "r", "s">>],
       [filename |-> "b.txt",
        content |-> <<"s", "h", "i", "p", "p", "i", "n", "g", " ", "r",
                      "a", "t", "e", "s">>],
       [filename |-> "c.txt",
        content |-> <<"R", "e", "f", "u", "n", "d", " ", "w", "i", "t",
                      "h", "i", "n", " ", "d", "a", "y", "s">>],
       [filename |-> "d.txt",
        content |-> <<"p", "o", "l", "i", "c", "y", " ", "o", "n", " ",
                      "r", "e", "f", "u", "n", "d", " ", "a", "n", "d",
                      " ", "s", "h", "i", "p", "p", "i", "n", "g">>],
       [filename |-> "e.txt",
        content |-> <<"o", "r", "d", "e", "r", "s", " ", "a", "n", "d",
                      " ", "r", "e", "f", "u", "n", "d">>] >>

QueryRefundPolicy ==
    <<"r", "e", "f", "u", "n", "d", " ", "p", "o", "l", "i", "c", "y">>

QueryRepeated ==
    <<"r", "e", "f", "u", "n", "d", " ", "r", "e", "f", "u", "n", "d">>

QueryShort ==
    <<"t", "h", "e", " ", "f", "e", "e">>

QueryEmpty ==
    <<>>

QueryUpper ==
    <<"S", "h", "i", "p", "p", "i", "n", "g", " ", " ", "o", "r", "d", "e",
      "r", "s">>

\* a token repeated, next to two tokens that occur once
QueryMixed ==
    <<"r", "e", "f", "u", "n", "d", " ", "r", "e", "f", "u", "n", "d", " ",
      "s", "h", "i", "p", "p", "i", "n", "g", " ", "r", "a", "t", "e", "s">>

\* two words separated by a tab
QueryTab ==
    <<"r", "e", "f", "u", "n", "d", "\t", "p", "o", "l", "i", "c", "y">>

CorpusNames == {"documents"}

Documents(name) == Corpus

Queries ==
    {QueryRefundPolicy, QueryRepeated, QueryShort, QueryEmpty, QueryUpper,
     QueryMixed, QueryTab}

----------------------------------------------------------------------------
(* The state machine: one action per tool, each a whole run of its handler *)

Init ==
    /\ variant \in {"v12", "v6"}
    /\ tzOffset \in TzOffsets
    /\ emailConfigured \in BOOLEAN
    /\ calendarEvents \in InitialCalendars
    /\ tool = "none"
    /\ arg = <<>>
    /\ instant = InvalidDate
    /\ busyEvents = {}
    /\ freeSlots = <<>>
    /\ aiContent = <<>>
    /\ documentKnowledge \in CorpusNames
    /\ scores = <<>>
    /\ results = <<>>
    /\ recipientEmail = FALSE
    /\ calls = <<>>
    /\ reply = NoReply

Config == <<variant, tzOffset, emailConfigured, documentKnowledge>>

Apply(out) ==
    /\ instant' = out.instant
    /\ busyEvents' = out.busyEvents
    /\ freeSlots' = out.freeSlots
    /\ aiContent' = out.aiContent
    /\ calls' = out.calls
    /\ reply' = out.reply
    /\ calendarEvents' = out.calendarEvents
    /\ scores' = <<>>
    /\ results' = <<>>
    /\ UNCHANGED Config

CheckCalendarAvailability ==
    \E date \in ToolInputs, listOk \in BOOLEAN :
        /\ tool' = "check_calendar_availability"
        /\ arg' = date
        /\ recipientEmail' = FALSE
        /\ Apply(IF variant = "v12"
                 THEN CheckAvailabilityV12(date, calendarEvents, tzOffset, listOk)
                 ELSE CheckAvailabilityV6(date, calendarEvents, tzOffset, listOk))

\* calendar.events.insert can succeed while the calendar holds fewer than
\* MaxEvents events; v6's sendMail cannot succeed without EMAIL_USER
BookAppointment ==
    \E dateTime \in ToolInputs, insertOk \in BOOLEAN, mailOk \in BOOLEAN :
        /\ insertOk => Cardinality(calendarEvents) < MaxEvents
        /\ (variant = "v6" /\ mailOk) => emailConfigured
        /\ tool' = "book_appointment"
        /\ arg' = dateTime
        /\ recipientEmail' = FALSE
        /\ Apply(IF variant = "v12"
                 THEN BookAppointmentV12(dateTime, calendarEvents, tzOffset,
                                         emailConfigured, insertOk, mailOk)
                 ELSE BookAppointmentV6(dateTime, calendarEvents, tzOffset,
                                        insertOk, mailOk))

GenerateCollateralCall ==
    \E ai \in AiOutcomes, file \in {"finish", "throw", "error"},
       hasRecipient \in BOOLEAN, mailOk \in BOOLEAN :
        /\ variant = "v6" => file # "error" /\ ~hasRecipient
        /\ tool' = "generate_collateral"
        /\ arg' = <<>>
        /\ recipientEmail' = hasRecipient
        /\ Apply(GenerateCollateral(variant, calendarEvents, emailConfigured,
                                    ai, file, hasRecipient, mailOk))

SendEmail ==
    \E mailOk \in BOOLEAN :
        /\ variant = "v6"
        /\ mailOk => emailConfigured
        /\ tool' = "send_email"
        /\ arg' = <<>>
        /\ recipientEmail' = FALSE
        /\ Apply(SendEmailV6(calendarEvents, mailOk))

\* what search_knowledge_base returns for each corpus and query
SearchOutcomes ==
    [name \in CorpusNames |->
        [query \in Queries |-> SearchKnowledgeBase(query, Documents(name))]]

SearchKnowledgeBaseCall ==
    \E query \in Queries :
        LET out == SearchOutcomes[documentKnowledge][query]
        IN  /\ tool' = "search_knowledge_base"
            /\ arg' = query
            /\ scores' = out.scores
            /\ results' = out.results
            /\ reply' = out.reply
            /\ calls' = <<>>
            /\ instant' = InvalidDate
            /\ busyEvents' = {}
            /\ freeSlots' = <<>>
            /\ aiContent' = <<>>
            /\ recipientEmail' = FALSE
            /\ UNCHANGED <<Config, calendarEvents>>

Next ==
    \/ CheckCalendarAvailability
    \/ BookAppointment
    \/ GenerateCollateralCall
    \/ SendEmail
    \/ SearchKnowledgeBaseCall

Spec == Init /\ [][Next]_vars

----------------------------------------------------------------------------
(* calculateFreeSlots on its own: any date argument, any set of at most    *)
(* MaxBusy events                                                          *)

BusyInputs == {b \in SUBSET EventUniverse : Cardinality(b) <= MaxBusy}

SlotInit ==
    /\ variant \in {"v12", "v6"}
    /\ tzOffset \in TzOffsets
    /\ emailConfigured = FALSE
    /\ calendarEvents = {}
    /\ tool = "none"
    /\ arg \in ArgInputs
    /\ instant = InvalidDate
    /\ busyEvents \in BusyInputs
    /\ freeSlots = <<>>
    /\ aiContent = <<>>
    /\ documentKnowledge \in CorpusNames
    /\ scores = <<>>
    /\ results = <<>>
    /\ recipientEmail = FALSE
    /\ calls = <<>>
    /\ reply = NoReply

CalculateFreeSlotsCall ==
    /\ tool = "none"
    /\ tool' = "calculateFreeSlots"
    /\ freeSlots' = calculateFreeSlots(variant, arg, busyEvents, tzOffset)
    /\ UNCHANGED <<Config, calendarEvents, arg, busyEvents, instant, aiContent,
                   scores, results, recipientEmail, calls, reply>>

SlotNext == CalculateFreeSlotsCall

SlotSpec == SlotInit /\ [][SlotNext]_vars

----------------------------------------------------------------------------
(* Properties *)

Range(f) == {f[i] : i \in DOMAIN f}

Made(op, ok) == \E i \in DOMAIN calls : calls[i] = Call(op, ok)

DateTools == {"check_calendar_availability", "book_appointment"}

\* the 30-minute ticks 09:00, 09:30, ..., 16:30 as <<hour, minute>>
Ticks == [i \in 1..16 |-> <<9 + ((i - 1) \div 2), 30 * ((i - 1) % 2)>>]

\* the label of the home-time tick h:m, h in 9..16
TickLabel(h, m) == <<IF h > 12 THEN h - 12 ELSE h, m, IF h < 12 THEN "AM" ELSE "PM">>

BusinessLabels == [i \in 1..16 |-> TickLabel(Ticks[i][1], Ticks[i][2])]

\* C1: book_appointment never inserts, and replies Conflict, when an event
\* already in the calendar overlaps the proposed 30-minute interval
\* (proposed.start < busy.end and proposed.end > busy.start).
C1_ConflictBlocksInsert ==
    [][(/\ tool' = "book_appointment"
        /\ instant'.valid
        /\ \E busy \in calendarEvents :
              /\ ~busy.allDay
              /\ instant'.time < busy.end
              /\ instant'.time + SlotSeconds > busy.start)
       => (/\ \A i \in DOMAIN calls' : calls'[i].op # "calendar.events.insert"
           /\ reply'.kind = "Conflict")]_vars

\* C2: for every requested day and every server clock, calculateFreeSlots
\* with no busy event returns exactly the sixteen labels 09:00 ... 16:30 of
\* home time, in increasing order.
C2_EmptyBusySixteenSlots ==
    (tool = "calculateFreeSlots" /\ arg \in BareDates /\ busyEvents = {})
        => freeSlots = BusinessLabels

\* C3: with timed busy intervals [s, e) inside business hours of the
\* requested day, the tick t is missing from the result exactly when
\* s <= t < e for one of them (so a tick equal to e is present unless
\* another interval covers it).
C3_TickAbsentIffCovered ==
    \A d \in Dates :
        (/\ tool = "calculateFreeSlots"
         /\ arg = DateText(d)
         /\ busyEvents # {}
         /\ \A e \in busyEvents : ~e.allDay /\ e \in EventsOn(d))
        => \A i \in 1..16 :
              LET t == HomeInstant(d, Ticks[i][1], Ticks[i][2])
              IN  (BusinessLabels[i] \notin Range(freeSlots))
                  <=> (\E e \in busyEvents : e.start <= t /\ t < e.end)

\* C9: an all-day event on the requested date leaves no free slot; all-day
\* events on other dates remove none of the sixteen slots.
C9_AllDayBlocksItsDate ==
    \A d \in Dates :
        (tool = "calculateFreeSlots" /\ arg = DateText(d))
        => /\ AllDayEvent(UtcDay(d)) \in busyEvents => freeSlots = <<>>
           /\ (/\ busyEvents # {}
               /\ \A e \in busyEvents : e.allDay /\ e # AllDayEvent(UtcDay(d)))
              => freeSlots = BusinessLabels

\* C8: the Date a date tool computes from its argument is the argument's
\* wall-clock time read in the home zone, whatever zone designator the
\* argument carries; a date alone is midnight of that date in the home zone.
C8_WallClockInHomeZone ==
    tool \in DateTools
    => /\ \A d \in Dates, t \in Times, sfx \in Suffixes :
             arg = DateTimeText(d, t, sfx) => instant = MkDate(HomeInstant(d, t[1], t[2]))
       /\ \A d \in Dates :
             arg = DateText(d) => instant = MkDate(HomeInstant(d, 0, 0))

\* C10: a date tool given an argument that is no date replies with its
\* error text and makes no external call.
C10_MalformedNoCall ==
    (tool \in DateTools /\ (arg \in Malformed \/ ~instant.valid))
    => /\ calls = <<>>
       /\ reply.kind = (IF tool = "book_appointment" THEN "Error booking slot."
                        ELSE "Error checking calendar.")

C10_Witness ==
    /\ tool = "book_appointment"
    /\ arg = DateText(<<2024, 13, 1>>)
    /\ calendarEvents = {}
    /\ calls = <<>>
    /\ reply.kind = "Error booking slot."

\* the first delivery channel (the Drive document of v6, the PDF file of
\* v12) and the Email channel (sendMail in v6, the relay's fetch in v12)
FirstChannelOps == {"drive.files.create", "pdf.write"}

EmailOps == {"transporter.sendMail", "fetch"}

FirstChannelFailed == \E op \in FirstChannelOps : Made(op, FALSE)

FirstChannelSucceeded == \E op \in FirstChannelOps : Made(op, TRUE)

EmailAttempts == {i \in DOMAIN calls : calls[i].op \in EmailOps}

EmailedKind == "I couldn't save to Drive (storage full), so I emailed the draft to you instead."

InlineKind == "I couldn't save to Drive or Email. Here is the draft:"

LinkKinds == {"Created Google Doc:", "I have created the PDF. You can view it here:"}

\* C4: in generate_collateral, a failed first-channel publish followed by a
\* successful Email publish gives the Email reply (not the Inline one); a
\* failed first-channel publish followed by a failed Email publish gives the
\* Inline reply, whose body is the first PreviewLength characters of the
\* generated text.
C4_FallbackOutcome ==
    (tool = "generate_collateral" /\ FirstChannelFailed)
    => /\ (\E op \in EmailOps : Made(op, TRUE)) => reply.kind = EmailedKind
       /\ (\E op \in EmailOps : Made(op, FALSE))
          => /\ reply.kind = InlineKind
             /\ Len(reply.body) = Min(Len(aiContent), PreviewLength)
             /\ \A i \in 1..Len(reply.body) : reply.body[i] = aiContent[i]

C4_Witness ==
    /\ tool = "generate_collateral"
    /\ Made("drive.files.create", FALSE)
    /\ Made("transporter.sendMail", FALSE)
    /\ reply.kind = InlineKind
    /\ Len(aiContent) > PreviewLength
    /\ Len(reply.body) = PreviewLength

\* C5 as claimed: after a successful first-channel publish the reply is the
\* document's link and the invocation makes no Email attempt.
C5_FirstSuccessStops ==
    (tool = "generate_collateral" /\ FirstChannelSucceeded)
    => /\ reply.kind \in LinkKinds
       /\ EmailAttempts = {}

\* C5 as amended: after a successful first-channel publish the reply is the
\* document's link (never the Inline text); v6 then makes no Email attempt,
\* and v12 makes one Email attempt exactly when a recipientEmail was given
\* and the relay URL is configured.
C5_FirstSuccessLink ==
    (tool = "generate_collateral" /\ FirstChannelSucceeded)
    => /\ reply.kind \in LinkKinds
       /\ variant = "v6" => EmailAttempts = {}
       /\ variant = "v12"
          => /\ Cardinality(EmailAttempts) <= 1
             /\ EmailAttempts # {} <=> (recipientEmail /\ emailConfigured)

C5_Witness ==
    /\ tool = "generate_collateral"
    /\ variant = "v12"
    /\ Made("pdf.write", TRUE)
    /\ Made("fetch", TRUE)
    /\ recipientEmail
    /\ reply.kind \in LinkKinds

\* C6: in generate_collateral the channels are tried in the order first
\* channel, Email, Inline, each at most once, and a failed first-channel
\* attempt is always followed by an Email attempt (the Email call is made
\* whenever the Email channel is configured).
C6_FailedFirstThenEmail ==
    tool = "generate_collateral"
    => /\ \A i, j \in DOMAIN calls :
             (i < j /\ calls[j].op \in FirstChannelOps)
             => calls[i].op \notin FirstChannelOps \cup EmailOps
       /\ Cardinality(EmailAttempts) <= 1
       /\ reply.kind = InlineKind => FirstChannelFailed
       /\ (FirstChannelFailed /\ emailConfigured) => EmailAttempts # {}

\* C7: every invocation of a tool ends with one text reply, whatever
\* external calls fail.  (A handler runs as one step; reply = NoReply after
\* it means the handler is suspended at an await that never settles.)
C7_AlwaysReplies ==
    tool \in {"check_calendar_availability", "book_appointment",
              "search_knowledge_base", "generate_collateral", "send_email"}
    => reply # NoReply

----------------------------------------------------------------------------
(* search_knowledge_base: scoring and ranking *)

Whitespace == {" ", "\t"}

\* the pieces of text between whitespace characters
RECURSIVE WordsOf(_, _, _)
WordsOf(text, from, piece) ==
    IF from > Len(text) THEN {piece}
    ELSE IF text[from] \in Whitespace
    THEN {piece} \cup WordsOf(text, from + 1, <<>>)
    ELSE WordsOf(text, from + 1, Append(piece, text[from]))

\* the distinct tokens of a query: whitespace-separated, longer than 3
\* characters, lower-cased
Tokens(query) == {w \in WordsOf(toLowerCase(query), 1, <<>>) : Len(w) > 3}

DistinctTokenScore(doc, query) ==
    Cardinality({w \in Tokens(query) : Includes(toLowerCase(doc.content), w)})

\* C11: search scores each document as the number of distinct query tokens
\* (whitespace-separated, longer than 3 characters, lower-cased) that occur
\* as a substring of the document text; a token repeated in the query
\* counts once, and a query without tokens scores every document 0.
C11_DistinctTokenScore ==
    tool = "search_knowledge_base"
    => LET corpus == Documents(documentKnowledge)
       IN  /\ DOMAIN scores = DOMAIN corpus
           /\ \A i \in DOMAIN corpus :
                 scores[i] = DistinctTokenScore(corpus[i], arg)

\* where a document stands in the corpus
CorpusIndex(filename) ==
    CHOOSE i \in DOMAIN Documents(documentKnowledge) :
        Documents(documentKnowledge)[i].filename = filename

Returned == {CorpusIndex(results[i].filename) : i \in DOMAIN results}

Ranked ==
    tool = "search_knowledge_base"
    => /\ Len(results) <= 3
       /\ \A i \in DOMAIN results :
             /\ results[i].score > 0
             /\ results[i].score = scores[CorpusIndex(results[i].filename)]
       /\ \A i, j \in DOMAIN results :
             i < j => \/ results[i].score > results[j].score
                      \/ /\ results[i].score = results[j].score
                         /\ CorpusIndex(results[i].filename)
                               < CorpusIndex(results[j].filename)
       /\ \A k \in DOMAIN scores \ Returned :
             scores[k] > 0 => \A i \in DOMAIN results : scores[k] <= results[i].score

SameQuerySameResults ==
    ( /\ tool = "search_knowledge_base"
      /\ tool' = "search_knowledge_base"
      /\ arg' = arg
      /\ documentKnowledge' = documentKnowledge )
    => results' = results

\* C12: search returns at most 3 documents, none with score 0, ordered by
\* descending score with ties in corpus order; every positive-score document
\* left out scores no higher than any returned one; and the same query
\* repeated on an unchanged corpus returns the same ordered result.  (The
\* score is the one search computed for the document.)
C12_RankedTopThree == []Ranked /\ [][SameQuerySameResults]_vars

\* three documents returned with a tie among them, and a positive-score
\* document left out that ties with the last one returned
C12_Witness ==
    /\ tool = "search_knowledge_base"
    /\ Len(results) = 3
    /\ results[1].score = results[2].score
    /\ results[2].score > results[3].score
    /\ \E k \in DOMAIN scores \ Returned : scores[k] = results[3].score

----------------------------------------------------------------------------
(* book_appointment: the insert and the confirmation email *)

InsertAttempts == {i \in DOMAIN calls : calls[i].op = "calendar.events.insert"}

BookedKinds ==
    {"Success. Booked for", "Success. Booked and emailed.",
     "Booked on calendar (Email failed)."}

\* C13: in book_appointment the confirmation email is attempted only after
\* the insert has succeeded, the insert is called at most once, and the
\* reply reports a booking exactly when the insert succeeded: a failed
\* insert gives "Error booking slot." and no email, and a failed email
\* after a successful insert never gives a booking error.
C13_EmailAfterInsert ==
    tool = "book_appointment"
    => /\ Cardinality(InsertAttempts) <= 1
       /\ \A i \in EmailAttempts :
             \E j \in 1..(i - 1) : calls[j] = Call("calendar.events.insert", TRUE)
       /\ reply.kind \in BookedKinds <=> Made("calendar.events.insert", TRUE)
       /\ Made("calendar.events.insert", FALSE)
             => reply.kind = "Error booking slot." /\ EmailAttempts = {}
       /\ ( /\ Made("calendar.events.insert", TRUE)
            /\ \E i \in EmailAttempts : ~calls[i].ok )
             => reply.kind # "Error booking slot."

\* an appointment inserted, the confirmation email failed, a booking reported
C13_Witness ==
    /\ tool = "book_appointment"
    /\ Made("calendar.events.insert", TRUE)
    /\ \E i \in EmailAttempts : ~calls[i].ok
    /\ reply.kind \in BookedKinds

\* the insert failed: a booking error and no email
C13_WitnessInsertFailed ==
    /\ tool = "book_appointment"
    /\ Made("calendar.events.insert", FALSE)
    /\ reply.kind = "Error booking slot."
    /\ EmailAttempts = {}

====
